---- MODULE Spec2Model ----
(***************************************************************************)
(* Model of mitsuba-scene-description:                                     *)
(*   - the Scene / SceneBuilder runtime (mitsuba_scene_description/scene.py)*)
(*   - Plugin.to_dict / serialize / Transform.to_mi (the UTILS text of     *)
(*     generator/generate_mitsuba_api.py)                                  *)
(*   - the class generator: split_names, map_type, normalize, render_class *)
(*     (generator/generate_mitsuba_api.py)                                 *)
(* Three specifications share the module: SceneSpec, TransformSpec and     *)
(* RenderSpec.  Each one drives its own part of the state and leaves the   *)
(* rest at its initial value.                                              *)
(***************************************************************************)
EXTENDS Integers, Sequences, FiniteSets, TLC

VARIABLES
    \* ---- plugin objects (heap) ----
    pid,            \* plugin object -> its mutable `id` field
    \* ---- one SceneBuilder ----
    b_integrator,   \* SceneBuilder._integrator
    b_sensors,      \* SceneBuilder._sensors   (a list object)
    b_shapes,       \* SceneBuilder._shapes    (a dict object)
    b_emitters,     \* SceneBuilder._emitters  (a dict object)
    b_media,        \* SceneBuilder._media     (a dict object)
    b_assets,       \* SceneBuilder._assets    (a dict object)
    b_id,           \* SceneBuilder._id
    \* ---- the Scene returned by build() ----
    scene,          \* the Scene object's own fields (built, integrator, id)
    refs,           \* the Ref objects returned by Scene.add_asset so far
    inserted,       \* history: the asset insertions made so far, in order
    steps,          \* number of calls made so far
    \* ---- one Transform ----
    t_ops,          \* Transform._ops
    \* ---- one call of render_class ----
    r_params,       \* spec["params"]: the rows of the plugin section
    r_category,     \* category_name
    r_result        \* what render_class did: the parts of the class text, or raised

sceneVars == <<pid, b_integrator, b_sensors, b_shapes, b_emitters, b_media,
               b_assets, b_id, scene, refs, inserted, steps>>

transformVars == <<t_ops>>

renderVars == <<r_params, r_category, r_result>>

vars == <<sceneVars, transformVars, renderVars>>

\* What the actions of one part leave alone.
notScene == <<transformVars, renderVars>>
notTransform == <<sceneVars, renderVars>>
notRender == <<sceneVars, transformVars>>

-----------------------------------------------------------------------------
(* Bounds and input sets of the Scene part                                   *)

MaxSteps == 4

\* The plugin objects the caller has constructed.
Plugins == {1, 2, 3}

\* Python's None for a string-valued field (distinct from every string drawn).
None == "<None>"
\* Python's None for a plugin-valued field.
NoPlugin == 0

\* Identifiers a caller gives a plugin at construction (Plugin(type, id=...)).
ExplicitIds == {"asset_2", "sensor_0"}

\* Names a caller passes to shape(), emitter() and medium().
ShapeNames == {"ball", "sensor"}
EmitterNames == {"sun", "type"}
MediumNames == {"fog", "integrator"}

\* Identifiers a caller passes to SceneBuilder.id().
SceneIds == {"main"}

\* Plugin.type of plugin object p (set at construction, never changed).
ptype(p) == "plugin_" \o ToString(p)

\* The empty dict {}.
EmptyDict == [k \in {} |-> NoPlugin]

\* d[k] = v on a dict.
Put(d, k, v) == (k :> v) @@ d

\* A string value held in a serialized mapping.
Str(s) == [str |-> s]

-----------------------------------------------------------------------------
(* utils: Plugin.to_dict and serialize                                       *)

\* Plugin.to_dict for a plugin with no further dataclass fields.
PluginToDict(p) ==
    IF pid[p] # None THEN [type |-> ptype(p), id |-> pid[p]]
                     ELSE [type |-> ptype(p)]

\* serialize(obj) for a plugin: a dataclass with to_dict.
serialize(p) == PluginToDict(p)

-----------------------------------------------------------------------------
(* Scene                                                                     *)

\* Scene.__init__: the sensors argument normalised to a list.  The argument is
\* None, a list (kept as the same object) or a single plugin.
SceneInitSensors(sensors) ==
    IF sensors.kind = "none" THEN <<>>
    ELSE IF sensors.kind = "list" THEN sensors.v
    ELSE <<sensors.v>>

\* The containers of the built Scene.  build() hands the builder's own list and
\* dicts to Scene.__init__, which stores them without copying: the Scene's
\* containers are the builder's objects.
SceneSensors  == SceneInitSensors([kind |-> "list", v |-> b_sensors])
SceneShapes   == b_shapes
SceneEmitters == b_emitters
SceneMedia    == b_media
SceneAssets   == b_assets

\* Mutant of AutoAssetId: the count is not advanced.
AutoAssetIdNoIncrement(assets) ==
    "asset_" \o ToString(Cardinality(DOMAIN assets))

\* f"asset_{len(assets)+1}"
AutoAssetId(assets) == "asset_" \o ToString(Cardinality(DOMAIN assets) + 1)

\* f"sensor_{i}" for the 0-based position i
SensorKey(i) == "sensor_" \o ToString(i)

\* for k,v in m.items(): d[k] = serialize(v)
PutAll(d, m) ==
    [k \in DOMAIN d \cup DOMAIN m |->
        IF k \in DOMAIN m THEN serialize(m[k]) ELSE d[k]]

\* Mutant of PutSensors: the keys count from 1.
PutSensorsFromOne(d, sensors) ==
    LET keys == {SensorKey(i) : i \in 1..Len(sensors)}
        at(k) == CHOOSE i \in 1..Len(sensors) : SensorKey(i) = k
    IN  [k \in DOMAIN d \cup keys |->
            IF k \in keys THEN serialize(sensors[at(k)]) ELSE d[k]]

\* for i, s in enumerate(sensors): d[f"sensor_{i}"] = serialize(s)
PutSensors(d, sensors) ==
    LET keys == {SensorKey(i - 1) : i \in 1..Len(sensors)}
        at(k) == CHOOSE i \in 1..Len(sensors) : SensorKey(i - 1) = k
    IN  [k \in DOMAIN d \cup keys |->
            IF k \in keys THEN serialize(sensors[at(k)]) ELSE d[k]]

ToDictSensors(d, sensors) ==
    IF Len(sensors) = 1 THEN Put(d, "sensor", serialize(sensors[1]))
                        ELSE PutSensors(d, sensors)

\* Mutant of to_dict: the integrator entry is written under the key "type".
to_dict_IntegratorAsType ==
    LET d0 == [type |-> Str("scene")]
        d1 == IF scene.integrator # NoPlugin
                 THEN Put(d0, "type", serialize(scene.integrator))
                 ELSE d0
        d2 == ToDictSensors(d1, SceneSensors)
        d3 == PutAll(d2, SceneShapes)
        d4 == PutAll(d3, SceneEmitters)
        d5 == PutAll(d4, SceneMedia)
        d6 == PutAll(d5, SceneAssets)
        d7 == IF scene.id # None THEN Put(d6, "id", Str(scene.id)) ELSE d6
    IN  d7

\* Scene.to_dict
to_dict ==
    LET d0 == [type |-> Str("scene")]
        d1 == IF scene.integrator # NoPlugin
                 THEN Put(d0, "integrator", serialize(scene.integrator))
                 ELSE d0
        d2 == ToDictSensors(d1, SceneSensors)
        d3 == PutAll(d2, SceneShapes)
        d4 == PutAll(d3, SceneEmitters)
        d5 == PutAll(d4, SceneMedia)
        d6 == PutAll(d5, SceneAssets)
        d7 == IF scene.id # None THEN Put(d6, "id", Str(scene.id)) ELSE d6
    IN  d7

-----------------------------------------------------------------------------
(* Initial state: a fresh SceneBuilder, plugins constructed by the caller    *)

\* A fresh SceneBuilder with plugins that carry no identifier, no Scene built.
SceneIdle ==
    /\ pid = [p \in Plugins |-> None]
    /\ b_integrator = NoPlugin
    /\ b_sensors = <<>>
    /\ b_shapes = EmptyDict
    /\ b_emitters = EmptyDict
    /\ b_media = EmptyDict
    /\ b_assets = EmptyDict
    /\ b_id = None
    /\ scene = [built |-> FALSE, integrator |-> NoPlugin, id |-> None]
    /\ refs = {}
    /\ inserted = <<>>
    /\ steps = 0

\* Transform.__init__
TransformIdle == t_ops = <<>>

\* No class rendered.
NotRendered ==
    [rendered |-> FALSE, raised |-> FALSE, fields |-> <<>>, ctor_args |-> <<>>,
     assigns |-> <<>>, docs |-> <<>>]

\* The generator before any section is read.
RenderIdle ==
    /\ r_params = <<>>
    /\ r_category = <<>>
    /\ r_result = NotRendered

SceneInit ==
    /\ TransformIdle
    /\ RenderIdle
    /\ pid \in {f \in [Plugins -> {None} \cup ExplicitIds] :
                    f[1] = None /\ f[2] = None}
    /\ b_integrator = NoPlugin
    /\ b_sensors = <<>>
    /\ b_shapes = EmptyDict
    /\ b_emitters = EmptyDict
    /\ b_media = EmptyDict
    /\ b_assets = EmptyDict
    /\ b_id = None
    /\ scene = [built |-> FALSE, integrator |-> NoPlugin, id |-> None]
    /\ refs = {}
    /\ inserted = <<>>
    /\ steps = 0

Step == steps < MaxSteps /\ steps' = steps + 1

\* SceneBuilder.integrator
Integrator(p) ==
    /\ Step
    /\ b_integrator' = p
    /\ UNCHANGED <<pid, b_sensors, b_shapes, b_emitters, b_media, b_assets,
                   b_id, scene, refs, inserted>>
    /\ UNCHANGED notScene

\* SceneBuilder.sensor
Sensor(p) ==
    /\ Step
    /\ b_sensors' = Append(b_sensors, p)
    /\ UNCHANGED <<pid, b_integrator, b_shapes, b_emitters, b_media, b_assets,
                   b_id, scene, refs, inserted>>
    /\ UNCHANGED notScene

\* SceneBuilder.shape
Shape(name, p) ==
    /\ Step
    /\ b_shapes' = Put(b_shapes, name, p)
    /\ UNCHANGED <<pid, b_integrator, b_sensors, b_emitters, b_media, b_assets,
                   b_id, scene, refs, inserted>>
    /\ UNCHANGED notScene

\* SceneBuilder.emitter
Emitter(name, p) ==
    /\ Step
    /\ b_emitters' = Put(b_emitters, name, p)
    /\ UNCHANGED <<pid, b_integrator, b_sensors, b_shapes, b_media, b_assets,
                   b_id, scene, refs, inserted>>
    /\ UNCHANGED notScene

\* SceneBuilder.medium
Medium(name, p) ==
    /\ Step
    /\ b_media' = Put(b_media, name, p)
    /\ UNCHANGED <<pid, b_integrator, b_sensors, b_shapes, b_emitters, b_assets,
                   b_id, scene, refs, inserted>>
    /\ UNCHANGED notScene

\* The body shared by SceneBuilder.asset and Scene.add_asset:
\*   if plugin.id is None: plugin.id = f"asset_{len(assets)+1}"
\*   assets[plugin.id] = plugin
InsertAsset(p, via) ==
    LET key == IF pid[p] = None THEN AutoAssetId(b_assets) ELSE pid[p]
    IN  /\ pid' = [pid EXCEPT ![p] = key]
        /\ b_assets' = Put(b_assets, key, p)
        /\ inserted' = Append(inserted,
                [plugin |-> p, auto |-> (pid[p] = None), key |-> key, via |-> via])

\* SceneBuilder.asset
Asset(p) ==
    /\ Step
    /\ InsertAsset(p, "asset")
    /\ UNCHANGED <<b_integrator, b_sensors, b_shapes, b_emitters, b_media,
                   b_id, scene, refs>>
    /\ UNCHANGED notScene

\* SceneBuilder.id
Id(s) ==
    /\ Step
    /\ b_id' = s
    /\ UNCHANGED <<pid, b_integrator, b_sensors, b_shapes, b_emitters, b_media,
                   b_assets, scene, refs, inserted>>
    /\ UNCHANGED notScene

\* SceneBuilder.build, with Scene.__init__
Build ==
    /\ Step
    /\ scene' = [built |-> TRUE, integrator |-> b_integrator, id |-> b_id]
    /\ UNCHANGED <<pid, b_integrator, b_sensors, b_shapes, b_emitters, b_media,
                   b_assets, b_id, refs, inserted>>
    /\ UNCHANGED notScene

\* Scene.add_asset
AddAsset(p) ==
    /\ scene.built
    /\ Step
    /\ InsertAsset(p, "add_asset")
    /\ refs' = refs \cup {[id |-> pid'[p], plugin |-> p]}
    /\ UNCHANGED <<b_integrator, b_sensors, b_shapes, b_emitters, b_media,
                   b_id, scene>>
    /\ UNCHANGED notScene

SceneNext ==
    \/ \E p \in Plugins : Integrator(p)
    \/ \E p \in Plugins : Sensor(p)
    \/ \E name \in ShapeNames, p \in Plugins : Shape(name, p)
    \/ \E name \in EmitterNames, p \in Plugins : Emitter(name, p)
    \/ \E name \in MediumNames, p \in Plugins : Medium(name, p)
    \/ \E p \in Plugins : Asset(p)
    \/ \E s \in SceneIds : Id(s)
    \/ Build
    \/ \E p \in Plugins : AddAsset(p)

SceneSpec == SceneInit /\ [][SceneNext]_vars

-----------------------------------------------------------------------------
(* Properties of the Scene part                                              *)

\* Every key written by the shapes, emitters, media and assets loops of to_dict.
GroupKeys ==
    DOMAIN SceneShapes \cup DOMAIN SceneEmitters \cup DOMAIN SceneMedia
        \cup DOMAIN SceneAssets

\* to_dict()[k] is present and equals v.
Entry(k, v) == k \in DOMAIN to_dict /\ to_dict[k] = v

\* C1 (as stated): whatever the four maps contain, one sensor is found under
\* "sensor" and k # 1 sensors are found under sensor_0 .. sensor_(k-1), each
\* equal to serialize(that sensor), in append order.
C1_SensorEntriesAlways ==
    scene.built =>
        IF Len(SceneSensors) = 1
        THEN Entry("sensor", serialize(SceneSensors[1]))
        ELSE \A i \in 1..Len(SceneSensors) :
                Entry(SensorKey(i - 1), serialize(SceneSensors[i]))

\* C1 (amended): the same, for every sensor key that is not also a key of the
\* shapes, emitters, media or assets map (those loops run later and overwrite).
C1_SensorEntries ==
    scene.built =>
        IF Len(SceneSensors) = 1
        THEN "sensor" \notin GroupKeys
                => Entry("sensor", serialize(SceneSensors[1]))
        ELSE \A i \in 1..Len(SceneSensors) :
                SensorKey(i - 1) \notin GroupKeys
                    => Entry(SensorKey(i - 1), serialize(SceneSensors[i]))

\* C1 witness: a built Scene with two different sensors and a populated shapes
\* map, whose sensor_0 and sensor_1 entries are the two sensors in append order.
C1_Witness ==
    /\ scene.built
    /\ Len(SceneSensors) = 2
    /\ SceneSensors[1] # SceneSensors[2]
    /\ DOMAIN SceneShapes # {}
    /\ Entry("sensor_0", serialize(SceneSensors[1]))
    /\ Entry("sensor_1", serialize(SceneSensors[2]))

\* The asset insertions so far all took a plugin that carried no identifier.
AllAuto == \A i \in 1..Len(inserted) : inserted[i].auto

\* C2: from an empty Scene or SceneBuilder, n insertions of plugins without an
\* identifier give them asset_1 .. asset_n in insertion order, and the asset map
\* then holds exactly those n keys, each mapped to the plugin inserted there.
C2_AutoNaming ==
    AllAuto =>
        /\ \A i \in 1..Len(inserted) :
              /\ inserted[i].key = "asset_" \o ToString(i)
              /\ pid[inserted[i].plugin] = inserted[i].key
              /\ inserted[i].key \in DOMAIN b_assets
              /\ b_assets[inserted[i].key] = inserted[i].plugin
        /\ DOMAIN b_assets = {"asset_" \o ToString(i) : i \in 1..Len(inserted)}

\* C2 witness: three plugins without identifier were inserted, the first through
\* SceneBuilder.asset or Scene.add_asset and the last through Scene.add_asset.
C2_Witness ==
    /\ Len(inserted) = 3
    /\ AllAuto
    /\ inserted[3].via = "add_asset"
    /\ DOMAIN b_assets = {"asset_1", "asset_2", "asset_3"}

\* C3: an automatically assigned identifier is never a key already in the asset
\* map, and every Ref returned by add_asset still names the plugin it was
\* returned for.
C3_AutoIdsFresh ==
    /\ \A i \in 1..Len(inserted) :
          inserted[i].auto =>
              \A j \in 1..(i - 1) : inserted[j].key # inserted[i].key
    /\ \A r \in refs : r.id \in DOMAIN b_assets /\ b_assets[r.id] = r.plugin

\* C4 (as stated): "type" is "scene" and, with an integrator set, "integrator"
\* is serialize(integrator), whatever keys the four maps hold.
C4_FixedEntriesAlways ==
    scene.built =>
        /\ Entry("type", Str("scene"))
        /\ scene.integrator # NoPlugin
              => Entry("integrator", serialize(scene.integrator))

\* C4 (amended): each fixed entry keeps its value unless its key is also a key
\* of the shapes, emitters, media or assets map.
C4_FixedEntries ==
    scene.built =>
        /\ "type" \notin GroupKeys => Entry("type", Str("scene"))
        /\ (scene.integrator # NoPlugin /\ "integrator" \notin GroupKeys)
              => Entry("integrator", serialize(scene.integrator))

\* C4 witness: a built Scene with an integrator and entries in the maps that
\* leave "type" and "integrator" as written.
C4_Witness ==
    /\ scene.built
    /\ scene.integrator # NoPlugin
    /\ GroupKeys # {}
    /\ Entry("type", Str("scene"))
    /\ Entry("integrator", serialize(scene.integrator))

-----------------------------------------------------------------------------
(* Transform (utils): deferred ops, composed by to_mi into a 4x4 transform   *)
(* rotate, look_at and matrix append their record the same way; their native *)
(* pieces are not integer matrices in general and are not drawn here.        *)

MaxOps == 2

\* Arguments a caller passes to translate() and scale().
Coord == {0, 1, 2}
Vec3 == Coord \X Coord \X Coord

\* mi.ScalarTransform4f(): the identity
Identity4 ==
    << <<1, 0, 0, 0>>, <<0, 1, 0, 0>>, <<0, 0, 1, 0>>, <<0, 0, 0, 1>> >>

\* Mutant of TranslateM: the offset is written into the last row.
TranslateMTransposed(v) ==
    << <<1, 0, 0, 0>>, <<0, 1, 0, 0>>, <<0, 0, 1, 0>>, <<v[1], v[2], v[3], 1>> >>

\* T().translate(v)
TranslateM(v) ==
    << <<1, 0, 0, v[1]>>, <<0, 1, 0, v[2]>>, <<0, 0, 1, v[3]>>, <<0, 0, 0, 1>> >>

\* T().scale(v)
ScaleM(v) ==
    << <<v[1], 0, 0, 0>>, <<0, v[2], 0, 0>>, <<0, 0, v[3], 0>>, <<0, 0, 0, 1>> >>

\* Entry (i, j) of the matrix product a b
Dot(a, b, i, j) ==
    a[i][1] * b[1][j] + a[i][2] * b[2][j] + a[i][3] * b[3][j] + a[i][4] * b[4][j]

\* a @ b on transforms: the matrix product
MatMul(a, b) ==
    << <<Dot(a, b, 1, 1), Dot(a, b, 1, 2), Dot(a, b, 1, 3), Dot(a, b, 1, 4)>>,
       <<Dot(a, b, 2, 1), Dot(a, b, 2, 2), Dot(a, b, 2, 3), Dot(a, b, 2, 4)>>,
       <<Dot(a, b, 3, 1), Dot(a, b, 3, 2), Dot(a, b, 3, 3), Dot(a, b, 3, 4)>>,
       <<Dot(a, b, 4, 1), Dot(a, b, 4, 2), Dot(a, b, 4, 3), Dot(a, b, 4, 4)>> >>

\* Coordinate i of m @ p
PointCoord(m, p, i) ==
    m[i][1] * p[1] + m[i][2] * p[2] + m[i][3] * p[3] + m[i][4]

\* m @ p on a point p of an affine transform (last row 0 0 0 1, so w = 1)
TransformPoint(m, p) ==
    <<PointCoord(m, p, 1), PointCoord(m, p, 2), PointCoord(m, p, 3)>>

\* The piece to_mi builds for one recorded step.
Piece(step) ==
    IF step.op = "translate" THEN TranslateM(step.value)
    ELSE ScaleM(step.value)

RECURSIVE ToMiRightFrom(_, _)
\* Mutant of ToMiFrom: cur = cur @ piece
ToMiRightFrom(cur, ops) ==
    IF ops = <<>> THEN cur
    ELSE ToMiRightFrom(MatMul(cur, Piece(Head(ops))), Tail(ops))

RECURSIVE ToMiFrom(_, _)
\* The loop of to_mi: for step in self._ops: ...; cur = piece @ cur
ToMiFrom(cur, ops) ==
    IF ops = <<>> THEN cur
    ELSE ToMiFrom(MatMul(Piece(Head(ops)), cur), Tail(ops))

\* Transform.to_mi
to_mi(ops) == ToMiFrom(Identity4, ops)

\* Transform.translate
Translate(x, y, z) ==
    /\ Len(t_ops) < MaxOps
    /\ t_ops' = Append(t_ops, [op |-> "translate", value |-> <<x, y, z>>])
    /\ UNCHANGED notTransform

\* Transform.scale called with one factor: y is None and z is None
ScaleUniform(x) ==
    /\ Len(t_ops) < MaxOps
    /\ t_ops' = Append(t_ops, [op |-> "scale", value |-> <<x, x, x>>])
    /\ UNCHANGED notTransform

\* Transform.scale called with three factors
Scale(x, y, z) ==
    /\ Len(t_ops) < MaxOps
    /\ t_ops' = Append(t_ops, [op |-> "scale", value |-> <<x, y, z>>])
    /\ UNCHANGED notTransform

TransformInit == SceneIdle /\ TransformIdle /\ RenderIdle

TransformNext ==
    \/ \E x \in Coord, y \in Coord, z \in Coord : Translate(x, y, z)
    \/ \E x \in Coord : ScaleUniform(x)
    \/ \E x \in Coord, y \in Coord, z \in Coord : Scale(x, y, z)

TransformSpec == TransformInit /\ [][TransformNext]_vars

-----------------------------------------------------------------------------
(* Properties of the Transform part                                          *)

\* What one recorded op does to a point, by the op's meaning.
ApplyOp(step, p) ==
    IF step.op = "translate"
    THEN <<p[1] + step.value[1], p[2] + step.value[2], p[3] + step.value[3]>>
    ELSE <<p[1] * step.value[1], p[2] * step.value[2], p[3] * step.value[3]>>

RECURSIVE ApplyInOrder(_, _)
\* op_n(... op_2(op_1(p)) ...): the ops applied to p in append order.
ApplyInOrder(ops, p) ==
    IF ops = <<>> THEN p
    ELSE ApplyInOrder(Tail(ops), ApplyOp(Head(ops), p))

\* C5: the composed transform applies the recorded ops to a point in append
\* order, first-appended first, and an empty Transform is the identity.
C5_AppendOrder ==
    LET native == to_mi(t_ops)
    IN  /\ \A p \in Vec3 : TransformPoint(native, p) = ApplyInOrder(t_ops, p)
        /\ t_ops = <<>> => native = Identity4

\* C5 witness: a translate followed by a scale that does not commute with it;
\* the point (1,1,1) is first moved, then scaled.
C5_Witness ==
    /\ t_ops = << [op |-> "translate", value |-> <<0, 1, 2>>],
                  [op |-> "scale", value |-> <<2, 2, 1>>] >>
    /\ TransformPoint(to_mi(t_ops), <<1, 1, 1>>) = <<2, 4, 3>>

\* translate(1,0,0) then scale(2,2,2), as recorded
TranslateThenScale ==
    << [op |-> "translate", value |-> <<1, 0, 0>>],
       [op |-> "scale", value |-> <<2, 2, 2>>] >>

\* C6 (as stated): translate(1,0,0) then scale(2,2,2) places the local origin
\* onto the world point (1,0,0).
C6_OriginToOne ==
    t_ops = TranslateThenScale
        => TransformPoint(to_mi(t_ops), <<0, 0, 0>>) = <<1, 0, 0>>

\* C6 (amended): translate(1,0,0) then scale(2,2,2) places the local origin
\* onto the world point (2,0,0): the translate is applied first, then the scale.
C6_OriginToTwo ==
    t_ops = TranslateThenScale
        => TransformPoint(to_mi(t_ops), <<0, 0, 0>>) = <<2, 0, 0>>

\* C6 witness: that Transform, recorded through translate() and scale(2).
C6_Witness ==
    /\ t_ops = TranslateThenScale
    /\ to_mi(t_ops) =
         << <<2, 0, 0, 2>>, <<0, 2, 0, 0>>, <<0, 0, 2, 0>>, <<0, 0, 0, 1>> >>

-----------------------------------------------------------------------------
(* Generator: text as sequences of characters                                *)

UpperChars == <<"A", "B", "C", "D", "E", "F", "G", "H", "I", "J", "K", "L", "M", "N", "O", "P", "Q", "R", "S", "T", "U", "V", "W", "X", "Y", "Z">>
LowerChars == <<"a", "b", "c", "d", "e", "f", "g", "h", "i", "j", "k", "l", "m", "n", "o", "p", "q", "r", "s", "t", "u", "v", "w", "x", "y", "z">>
DigitChars == {"0", "1", "2", "3", "4", "5", "6", "7", "8", "9"}

\* The character Python writes as the partial-derivative sign.
PartialSign == "<partial>"

\* c.lower()
Lower(c) ==
    IF \E i \in 1..26 : UpperChars[i] = c
    THEN LowerChars[CHOOSE i \in 1..26 : UpperChars[i] = c]
    ELSE c

\* s.lower()
LowerStr(s) == [i \in 1..Len(s) |-> Lower(s[i])]

\* \w of the re module: a letter, a digit or the underscore
IsWordChar(c) ==
    \/ c = "_"
    \/ c \in DigitChars
    \/ \E i \in 1..26 : c = UpperChars[i] \/ c = LowerChars[i]

\* sub in s
Contains(s, sub) ==
    \E i \in 0..(Len(s) - Len(sub)) : SubSeq(s, i + 1, i + Len(sub)) = sub

\* s.startswith(prefix)
StartsWith(s, prefix) ==
    Len(s) >= Len(prefix) /\ SubSeq(s, 1, Len(prefix)) = prefix

RECURSIVE LStrip(_, _)
LStrip(s, chars) ==
    IF s # <<>> /\ Head(s) \in chars THEN LStrip(Tail(s), chars) ELSE s

RECURSIVE RStrip(_, _)
RStrip(s, chars) ==
    IF s # <<>> /\ s[Len(s)] \in chars
    THEN RStrip(SubSeq(s, 1, Len(s) - 1), chars)
    ELSE s

\* s.strip(chars); s.strip() strips white space
Strip(s, chars) == RStrip(LStrip(s, chars), chars)
WhiteSpace == {" "}

RECURSIVE SplitFrom(_, _, _)
\* s.split(sep): cur is the part being read
SplitFrom(s, sep, cur) ==
    IF s = <<>> THEN <<cur>>
    ELSE IF Head(s) = sep THEN <<cur>> \o SplitFrom(Tail(s), sep, <<>>)
    ELSE SplitFrom(Tail(s), sep, Append(cur, Head(s)))

Split(s, sep) == SplitFrom(s, sep, <<>>)

RECURSIVE StrippedNonEmpty(_)
\* [p.strip() for p in pieces if p.strip()]
StrippedNonEmpty(pieces) ==
    IF pieces = <<>> THEN <<>>
    ELSE (IF Strip(Head(pieces), WhiteSpace) # <<>>
             THEN <<Strip(Head(pieces), WhiteSpace)>>
             ELSE <<>>)
            \o StrippedNonEmpty(Tail(pieces))

\* split_names
split_names(name) ==
    LET parts == StrippedNonEmpty(Split(name, ","))
    IN  IF parts # <<>> THEN parts ELSE <<name>>

\* The keywords normalize knows.
Keywords == {<<"c", "l", "a", "s", "s">>, <<"d", "e", "f">>, <<"f", "r", "o", "m">>, <<"i", "m", "p", "o", "r", "t">>, <<"l", "a", "m", "b", "d", "a">>}

\* The \W alternative of the pattern: every non-word character becomes "_".
NonWordToUnderscore(name) ==
    [i \in 1..Len(name) |-> IF IsWordChar(name[i]) THEN name[i] ELSE "_"]

\* re.sub(r"\W|^(?=\d)", "_", name): every non-word character becomes "_", and
\* a "_" is inserted in front of a leading digit.
SubNonWord(name) ==
    IF name # <<>> /\ name[1] \in DigitChars
    THEN <<"_">> \o NonWordToUnderscore(name)
    ELSE NonWordToUnderscore(name)

\* normalize
normalize(name) ==
    LET n == Strip(LowerStr(SubNonWord(name)), {"_"})
        n2 == IF n \in Keywords THEN n \o <<"_">> ELSE n
    IN  IF n2 # <<>> THEN n2 ELSE <<"p", "a", "r", "a", "m">>

\* TYPE_RULES: the words each pattern looks for, and what it maps to, in order.
\* A type text is the sequence of its lower-cased words; \bword\b with re.I
\* matches when one of them is the word.
TYPE_RULES ==
    << [words |-> {"float", "double", "scalar"}, out |-> "float"],
       [words |-> {"int", "integer"}, out |-> "int"],
       [words |-> {"bool", "boolean"}, out |-> "bool"],
       [words |-> {"string", "filename", "path"}, out |-> "str"],
       [words |-> {"rgb", "color"}, out |-> "List[float]"],
       [words |-> {"spectrum"}, out |-> "Union[List[float], Plugin]"],
       [words |-> {"transform"}, out |-> "Transform"],
       [words |-> {"bsdf", "texture", "emitter", "shape", "sensor", "film",
                   "sampler", "medium", "phase", "filter", "spectrum", "volume"},
        out |-> "Plugin"] >>

\* map_type: the first rule that matches, else "Plugin"
map_type(text) ==
    LET hits == {i \in 1..Len(TYPE_RULES) :
                    \E k \in 1..Len(text) : text[k] \in TYPE_RULES[i].words}
    IN  IF hits = {} THEN "Plugin"
        ELSE TYPE_RULES[CHOOSE i \in hits : \A j \in hits : i <= j].out

-----------------------------------------------------------------------------
(* Generator: render_class                                                   *)
(* The class text is kept as its parts: the field lines, the constructor     *)
(* parameters, the assignments and the documentation lines, each a record of *)
(* the values the f-string formats.  title, slug and url go into the         *)
(* template unchanged and are left out.  The fields row and alias of an      *)
(* entry are bookkeeping: the row, and the name within the row, that the     *)
(* entry was emitted for.                                                    *)

MaxRows == 2

\* Parameter names, type texts, descriptions and flags of the table rows drawn.
RowNames == {<<"b", "s", "d", "f">>, <<"d", "e", "f">>, <<"1", "D", "-">>, <<"d", ",", " ", "e">>}
RowTypes == {<<"float">>, <<>>}
RowDescs == {"about"}
RowFlags == {<<>>, <<"R", "e", "q", "u", "i", "r", "e", "d">>, <<"s", "t", "a", "t", "e">>, <<"d", "e", "r", "i", "v", "e", "d", ",", " ", "o", "u", "t", "p", "u", "t">>,
             <<"P", ",", " ", PartialSign, ",", " ", "D">>}
Categories == {<<"S", "h", "a", "p", "e", "s">>, <<"B", "s", "d", "f", "s">>}

IdName == <<"i", "d">>
BsdfName == <<"b", "s", "d", "f">>

\* A local variable of render_class that is not assigned yet, and one that is.
Unbound == [bound |-> FALSE]
Bound(v) == [bound |-> TRUE, v |-> v]

RECURSIVE EscBackslash(_)
\* x.replace("\\", r"\\")
EscBackslash(x) ==
    IF x = <<>> THEN <<>>
    ELSE (IF Head(x) = "\\" THEN <<"\\", "\\">> ELSE <<Head(x)>>)
            \o EscBackslash(Tail(x))

RECURSIVE EscQuotes(_)
\* x.replace('"""', r"\"\"\"")
EscQuotes(x) ==
    IF Len(x) >= 3 /\ SubSeq(x, 1, 3) = <<"\"", "\"", "\"">>
    THEN <<"\\", "\"", "\\", "\"", "\\", "\"">> \o EscQuotes(SubSeq(x, 4, Len(x)))
    ELSE IF x = <<>> THEN <<>>
    ELSE <<Head(x)>> \o EscQuotes(Tail(x))

\* _esc
Esc(x) == EscQuotes(EscBackslash(x))

DigitSeq == <<"0", "1", "2", "3", "4", "5", "6", "7", "8", "9">>

RECURSIVE Decimal(_)
\* str(i) for i >= 0
Decimal(i) ==
    IF i < 10 THEN <<DigitSeq[i + 1]>>
    ELSE Decimal(i \div 10) \o <<DigitSeq[(i % 10) + 1]>>

RECURSIVE UniqueFrom(_, _, _, _)
\* while name in seen or not name: name = f"{base}_{i}"; i += 1
UniqueFrom(name, base, i, seen) ==
    IF name \in seen \/ name = <<>>
    THEN UniqueFrom(base \o <<"_">> \o Decimal(i), base, i + 1, seen)
    ELSE name

\* unique: the name it returns (and adds to seen)
unique(name, seen) == UniqueFrom(name, name, 2, seen)

\* Mutant of Excluded: no row is dropped.
ExcludedNever(flags) == FALSE

\* any(tag in flags for tag in ("state", "derived", "output"))
Excluded(flags) ==
    \E tag \in {<<"s", "t", "a", "t", "e">>, <<"d", "e", "r", "i", "v", "e", "d">>, <<"o", "u", "t", "p", "u", "t">>} : Contains(flags, tag)

\* "required" in flags
IsRequired(flags) == Contains(flags, <<"r", "e", "q", "u", "i", "r", "e", "d">>)

\* The markers list of one row
Markers(flags) ==
    (IF Contains(flags, <<"p">>) THEN <<"P">> ELSE <<>>)
        \o (IF Contains(flags, <<PartialSign>>) THEN <<PartialSign>> ELSE <<>>)
        \o (IF Contains(flags, <<"d">>) THEN <<"D">> ELSE <<>>)

RECURSIVE JoinBar(_)
\* " | ".join(markers)
JoinBar(markers) ==
    IF Len(markers) <= 1 THEN markers
    ELSE <<Head(markers), " | ">> \o JoinBar(Tail(markers))

\* marker_str = f"[{marker_str}]" if len(marker_str) != 0 else ""
MarkerStr(markers) ==
    IF JoinBar(markers) # <<>> THEN <<"[">> \o JoinBar(markers) \o <<"]">>
    ELSE <<>>

\* assigns = ["        self.id = id"]
AssignId == [name |-> IdName, row |-> 0, alias |-> 0]

\* "id: Optional[str] = None"
CtorId ==
    [kind |-> "param", name |-> IdName, ann |-> "Optional[str]",
     default |-> TRUE, row |-> 0, alias |-> 0]

\* fields = ["    pass"]
PassField == [kind |-> "pass"]

\* docs = ["        (no parameters documented)"]
NoParamsDoc == [kind |-> "none"]

\* The locals of render_class when its loop starts.
InitLocals ==
    [required_fields |-> <<>>, optional_fields |-> <<>>,
     required_ctor |-> <<>>, optional_ctor |-> <<>>,
     assigns |-> <<AssignId>>, docs |-> <<>>, seen |-> {},
     p |-> Unbound, raw_name |-> Unbound, marker_str |-> Unbound,
     raised |-> FALSE]

\* The body of `for raw_name in split_names(...)` for one name.
ProcessName(st, p, row, raw_name, alias) ==
    LET flags == LowerStr(p.flags)
        is_required == IsRequired(flags)
        st0 == [st EXCEPT !.raw_name = Bound(raw_name)]
        nm0 == normalize(raw_name)
    IN  IF nm0 \in st.seen THEN st0
        ELSE
        LET base_ann == map_type(p.type)
            ann == IF is_required THEN base_ann
                   ELSE "Optional[" \o base_ann \o "]"
            nm == unique(nm0, st.seen)
            entry == [kind |-> "param", name |-> nm, ann |-> ann,
                      default |-> ~is_required, row |-> row, alias |-> alias]
            marker_str == MarkerStr(Markers(flags))
            doc == [kind |-> "param", name |-> Esc(raw_name), type |-> p.type,
                    markers |-> marker_str, desc |-> p.desc]
        IN  [st0 EXCEPT
                !.seen = @ \cup {nm},
                !.required_fields = IF is_required THEN Append(@, entry) ELSE @,
                !.required_ctor = IF is_required THEN Append(@, entry) ELSE @,
                !.optional_fields = IF is_required THEN @ ELSE Append(@, entry),
                !.optional_ctor = IF is_required THEN @ ELSE Append(@, entry),
                !.assigns = Append(@, [name |-> nm, row |-> row, alias |-> alias]),
                !.marker_str = Bound(marker_str),
                !.docs = Append(@, doc)]

RECURSIVE ProcessNames(_, _, _, _, _)
\* for raw_name in split_names(p.get("name", "param")): ...
ProcessNames(st, p, row, names, alias) ==
    IF alias > Len(names) THEN st
    ELSE ProcessNames(ProcessName(st, p, row, names[alias], alias),
                      p, row, names, alias + 1)

\* The body of `for p in params` for one row.
ProcessRow(st, p, row) ==
    LET st0 == [st EXCEPT !.p = Bound(p)]
    IN  IF Excluded(LowerStr(p.flags)) THEN st0
        ELSE ProcessNames(st0, p, row, split_names(p.name), 1)

RECURSIVE ProcessRows(_, _, _)
\* for p in params: ...
ProcessRows(st, params, row) ==
    IF row > Len(params) THEN st
    ELSE ProcessRows(ProcessRow(st, params[row], row), params, row + 1)

\* "    bsdf: Optional[Plugin] = None" and "bsdf: Optional[Plugin] = None"
BsdfEntry(row) ==
    [kind |-> "param", name |-> BsdfName, ann |-> "Optional[Plugin]",
     default |-> TRUE, row |-> row, alias |-> 1]

\* The first `if add_shape_bsdf and "bsdf" not in seen` block: its docs line
\* reads the loop's raw_name, p and marker_str, and raises when the loop never
\* assigned them.
InjectBsdfFromLocals(st, add_shape_bsdf, row) ==
    IF ~(add_shape_bsdf /\ BsdfName \notin st.seen) THEN st
    ELSE IF ~(st.raw_name.bound /\ st.p.bound /\ st.marker_str.bound)
    THEN [st EXCEPT !.raised = TRUE]
    ELSE [st EXCEPT
            !.seen = @ \cup {BsdfName},
            !.optional_fields = Append(@, BsdfEntry(row)),
            !.optional_ctor = Append(@, BsdfEntry(row)),
            !.assigns = Append(@, [name |-> BsdfName, row |-> row, alias |-> 1]),
            !.docs = Append(@,
                [kind |-> "param", name |-> Esc(st.raw_name.v),
                 type |-> st.p.v.type,
                 markers |-> <<"[">> \o st.marker_str.v \o <<"]">>,
                 desc |-> st.p.v.desc])]

\* The second `if add_shape_bsdf and "bsdf" not in seen` block, with the fixed
\* docs line "- bsdf (bsdf): [P] Surface scattering model".
InjectBsdfFixed(st, add_shape_bsdf, row) ==
    IF ~(add_shape_bsdf /\ BsdfName \notin st.seen) THEN st
    ELSE [st EXCEPT
            !.seen = @ \cup {BsdfName},
            !.optional_fields = Append(@, BsdfEntry(row)),
            !.optional_ctor = Append(@, BsdfEntry(row)),
            !.assigns = Append(@, [name |-> BsdfName, row |-> row, alias |-> 1]),
            !.docs = Append(@,
                [kind |-> "param", name |-> BsdfName, type |-> <<"bsdf">>,
                 markers |-> <<"[", "P", "]">>,
                 desc |-> "Surface scattering model"])]

\* Mutant of JoinFields: the optional fields come first.
JoinFieldsOptionalFirst(required_fields, optional_fields) ==
    optional_fields \o required_fields

\* fields = required_fields + optional_fields
JoinFields(required_fields, optional_fields) ==
    required_fields \o optional_fields

\* ctor_args = required_ctor + ["id: Optional[str] = None"] + optional_ctor
JoinCtor(required_ctor, optional_ctor) ==
    required_ctor \o <<CtorId>> \o optional_ctor

\* render_class raised an exception.
Raised ==
    [rendered |-> TRUE, raised |-> TRUE, fields |-> <<>>, ctor_args |-> <<>>,
     assigns |-> <<>>, docs |-> <<>>]

\* render_class
render_class(params, category_name) ==
    LET add_shape_bsdf == StartsWith(LowerStr(category_name), <<"s", "h", "a", "p", "e">>)
        synthetic == Len(params) + 1
        st1 == ProcessRows(InitLocals, params, 1)
        st2 == InjectBsdfFromLocals(st1, add_shape_bsdf, synthetic)
        st3 == IF st2.raised THEN st2
               ELSE InjectBsdfFixed(st2, add_shape_bsdf, synthetic)
        fields == JoinFields(st3.required_fields, st3.optional_fields)
    IN  IF st3.raised THEN Raised
        ELSE [rendered |-> TRUE, raised |-> FALSE,
              fields |-> IF fields = <<>> THEN <<PassField>> ELSE fields,
              docs |-> IF fields = <<>> THEN <<NoParamsDoc>> ELSE st3.docs,
              ctor_args |-> JoinCtor(st3.required_ctor, st3.optional_ctor),
              assigns |-> st3.assigns]

\* No section read yet.
RenderInit == SceneIdle /\ TransformIdle /\ RenderIdle

\* extract_params: out.append({"name": n, "type": ptype, "desc": desc, "flags": flags})
AppendParam(name, type, desc, flags) ==
    /\ ~r_result.rendered
    /\ Len(r_params) < MaxRows
    /\ r_params' = Append(r_params,
            [name |-> name, type |-> type, desc |-> desc, flags |-> flags])
    /\ UNCHANGED <<r_category, r_result>>
    /\ UNCHANGED notRender

\* main: lines.append(render_class(spec, name)) for a section of category name
Render(category_name) ==
    /\ ~r_result.rendered
    /\ r_category' = category_name
    /\ r_result' = render_class(r_params, category_name)
    /\ UNCHANGED r_params
    /\ UNCHANGED notRender

RenderNext ==
    \/ \E name \in RowNames, type \in RowTypes, desc \in RowDescs,
          flags \in RowFlags : AppendParam(name, type, desc, flags)
    \/ \E category_name \in Categories : Render(category_name)

RenderSpec == RenderInit /\ [][RenderNext]_vars

-----------------------------------------------------------------------------
(* Properties of the generator                                               *)

\* render_class returned a class.
Returned == r_result.rendered /\ ~r_result.raised

\* The entries of a part of the class that were emitted for a table row.
FromRows(part) ==
    {part[i] : i \in {k \in 1..Len(part) :
        part[k].row >= 1 /\ part[k].row <= Len(r_params)}}

\* The field lines of the class, none when the body is the placeholder.
FieldLines ==
    IF r_result.fields = <<PassField>> THEN <<>> ELSE r_result.fields

\* The lower-cased flags text of row i, and the markers the claims name.
FlagsOf(i) == LowerStr(r_params[i].flags)
SaysRequired(i) == Contains(FlagsOf(i), <<"r", "e", "q", "u", "i", "r", "e", "d">>)
SaysState(i) ==
    \/ Contains(FlagsOf(i), <<"s", "t", "a", "t", "e">>)
    \/ Contains(FlagsOf(i), <<"d", "e", "r", "i", "v", "e", "d">>)
    \/ Contains(FlagsOf(i), <<"o", "u", "t", "p", "u", "t">>)

\* The names of the entries of a part.
NamesIn(part) == {part[i].name : i \in 1..Len(part)}

\* The identifiers the names of row i normalize to, in encounter order.
RowIdentifiers(i) ==
    LET names == split_names(r_params[i].name)
    IN  [a \in 1..Len(names) |-> normalize(names[a])]

\* The a-th name of row i gives an identifier that no earlier name of a row that
\* is not dropped has given.
FirstSeen(i, a) ==
    \A j \in 1..i :
        ~SaysState(j) =>
            \A b \in 1..Len(RowIdentifiers(j)) :
                (j < i \/ b < a) => RowIdentifiers(j)[b] # RowIdentifiers(i)[a]

\* The a-th name of row i has its own field, constructor parameter and
\* assignment, the first two without default value.
YieldsRequired(i, a) ==
    /\ \E e \in FromRows(FieldLines) : e.row = i /\ e.alias = a /\ ~e.default
    /\ \E e \in FromRows(r_result.ctor_args) : e.row = i /\ e.alias = a /\ ~e.default
    /\ \E e \in FromRows(r_result.assigns) : e.row = i /\ e.alias = a

\* A row flagged state, derived or output yields no field, no constructor
\* parameter and no assignment.
StateRowsDropped ==
    /\ \A e \in FromRows(FieldLines) \cup FromRows(r_result.ctor_args) : ~SaysState(e.row)
    /\ \A e \in FromRows(r_result.assigns) : ~SaysState(e.row)

\* C7 as stated: every row flagged "required" yields a field and a constructor
\* parameter without default value for each of its names, and a row flagged
\* state, derived or output yields nothing.
C7_RequiredAlwaysYields ==
    Returned =>
        /\ StateRowsDropped
        /\ \A i \in 1..Len(r_params) :
              SaysRequired(i) =>
                  \A a \in 1..Len(RowIdentifiers(i)) : YieldsRequired(i, a)

\* C7, amended: a row flagged state, derived or output yields nothing; what a
\* row flagged "required" yields has no default value; and a required row that
\* is not dropped yields a field and a constructor parameter without default
\* for each of its names whose identifier was not seen earlier in the section.
C7_RequiredAndState ==
    Returned =>
        /\ StateRowsDropped
        /\ \A e \in FromRows(FieldLines) \cup FromRows(r_result.ctor_args) :
              SaysRequired(e.row) => ~e.default
        /\ \A i \in 1..Len(r_params) :
              (SaysRequired(i) /\ ~SaysState(i)) =>
                  \A a \in 1..Len(RowIdentifiers(i)) :
                      FirstSeen(i, a) => YieldsRequired(i, a)

\* C7 witness: a class rendered from a state row and a required row; the only
\* parameter is the required one, without default.
C7_Witness ==
    /\ Returned
    /\ Len(r_params) = 2
    /\ SaysState(1)
    /\ SaysRequired(2)
    /\ Len(FieldLines) = 1
    /\ FieldLines[1].row = 2
    /\ ~FieldLines[1].default
    /\ Len(r_result.ctor_args) = 2
    /\ r_result.ctor_args[1] = FieldLines[1]

\* A valid identifier: not empty, letters, digits and underscores only, not
\* starting with a digit.
ValidIdentifier(n) ==
    /\ n # <<>>
    /\ \A i \in 1..Len(n) : IsWordChar(n[i])
    /\ n[1] \notin DigitChars

\* C8: every parameter identifier render_class emits is a valid identifier, is
\* not a reserved keyword, and occurs once in the constructor signature.
C8_ValidUniqueIdentifiers ==
    Returned =>
        /\ \A i \in 1..Len(r_result.ctor_args) :
              /\ ValidIdentifier(r_result.ctor_args[i].name)
              /\ r_result.ctor_args[i].name \notin Keywords
        /\ \A i \in 1..Len(r_result.ctor_args) :
              \A j \in 1..Len(r_result.ctor_args) :
                  i # j => r_result.ctor_args[i].name # r_result.ctor_args[j].name

\* C9: render_class never raises; it returns a class, with the placeholder body
\* when no field remains.
C9_NeverRaises ==
    r_result.rendered =>
        /\ ~r_result.raised
        /\ r_result.fields # <<>>

\* e1 was encountered before e2: an earlier row, or an earlier name of the row.
Before(e1, e2) ==
    e1.row < e2.row \/ (e1.row = e2.row /\ e1.alias < e2.alias)

\* In part, no parameter with a default precedes one without.
RequiredFirst(part) ==
    \A i \in 1..Len(part) : \A j \in 1..Len(part) :
        i < j => ~(part[i].default /\ ~part[j].default)

\* In part, the required parameters keep encounter order, and so do the
\* optional ones.
GroupsInOrder(part) ==
    \A i \in 1..Len(part) : \A j \in 1..Len(part) :
        (i < j /\ part[i].default = part[j].default) => Before(part[i], part[j])

\* seq without its k-th element
Without(seq, k) == SubSeq(seq, 1, k - 1) \o SubSeq(seq, k + 1, Len(seq))

\* C10: the fields and the constructor parameters put every required parameter
\* before every optional one, each group in encounter order, and the id
\* parameter sits exactly between the required and the optional group.
C10_RequiredBeforeOptional ==
    Returned =>
        LET ctor == r_result.ctor_args
            at == Cardinality({i \in 1..Len(FieldLines) : ~FieldLines[i].default}) + 1
        IN  /\ RequiredFirst(FieldLines)
            /\ GroupsInOrder(FieldLines)
            /\ Len(ctor) = Len(FieldLines) + 1
            /\ ctor[at] = CtorId
            /\ \A i \in 1..Len(ctor) : i < at => ~ctor[i].default
            /\ \A i \in 1..Len(ctor) : i > at => ctor[i].default
            /\ GroupsInOrder(Without(ctor, at))
            /\ NamesIn(Without(ctor, at)) = NamesIn(FieldLines)

\* C10 witness: an optional row read before a required row with two names: the
\* two required fields come first, the optional one read earlier comes last.
C10_Witness ==
    /\ Returned
    /\ Len(FieldLines) = 3
    /\ ~FieldLines[1].default /\ ~FieldLines[2].default /\ FieldLines[3].default
    /\ FieldLines[3].row = 1 /\ FieldLines[1].row = 2 /\ FieldLines[2].row = 2
    /\ r_result.ctor_args[3] = CtorId

\* The category is of the shapes family.
ShapesCategory == StartsWith(LowerStr(r_category), <<"s", "h", "a", "p", "e">>)

\* A row that is not dropped has a name that normalizes to bsdf.
RowGivesBsdf ==
    \E i \in 1..Len(r_params) :
        ~SaysState(i) /\
        \E a \in 1..Len(RowIdentifiers(i)) : RowIdentifiers(i)[a] = BsdfName

\* The entries of a part of the class that were emitted for no table row.
Injected(part) ==
    {k \in 1..Len(part) : part[k] # CtorId /\ part[k] # AssignId
                          /\ part[k].row > Len(r_params)}

\* The documentation line of the injected bsdf parameter.
FixedBsdfDoc ==
    [kind |-> "param", name |-> BsdfName, type |-> <<"bsdf">>,
     markers |-> <<"[", "P", "]">>, desc |-> "Surface scattering model"]

\* C11: in a shapes category with no row that normalizes to bsdf, the class
\* gets exactly one injected parameter, the optional bsdf plugin reference,
\* after all other optional parameters, documented by the fixed bsdf line and
\* by no line of another row; otherwise nothing is injected.
C11_BsdfInjection ==
    Returned =>
        IF ShapesCategory /\ ~RowGivesBsdf
        THEN /\ Injected(FieldLines) = {Len(FieldLines)}
             /\ Injected(r_result.ctor_args) = {Len(r_result.ctor_args)}
             /\ FieldLines[Len(FieldLines)] = BsdfEntry(Len(r_params) + 1)
             /\ r_result.ctor_args[Len(r_result.ctor_args)] = BsdfEntry(Len(r_params) + 1)
             /\ Len(r_result.docs) = Len(FieldLines)
             /\ r_result.docs[Len(r_result.docs)] = FixedBsdfDoc
        ELSE /\ Injected(FieldLines) = {}
             /\ Injected(r_result.ctor_args) = {}
             /\ Injected(r_result.assigns) = {}

\* A call of sensor, shape, emitter, medium, asset or id on the builder.
BuilderCall ==
    \/ \E p \in Plugins : Sensor(p)
    \/ \E name \in ShapeNames, p \in Plugins : Shape(name, p)
    \/ \E name \in EmitterNames, p \in Plugins : Emitter(name, p)
    \/ \E name \in MediumNames, p \in Plugins : Medium(name, p)
    \/ \E p \in Plugins : Asset(p)
    \/ \E s \in SceneIds : Id(s)

\* C12: once build() has returned a Scene, a later sensor, shape, emitter,
\* medium, asset or id call on the builder leaves the result of the Scene's
\* to_dict() unchanged.
C12_BuiltSceneUnchanged ==
    [][(scene.built /\ BuilderCall) => to_dict' = to_dict]_vars

====
